---- MODULE Spec2Model ----
(***************************************************************************)
(* Model of draw_magnets.py: the piecewise polynomial evaluator, the four  *)
(* element renderers threading a ray state (x, y, heading) through a       *)
(* shared path list, and the SVG serializer.                               *)
(*                                                                         *)
(* Numbers.  Lengths and coordinates are exact integers counted in ticks   *)
(* of 1/TicksPerUnit drawing unit (0.15 is 3 ticks).  Angles are counted   *)
(* in quarter turns, so that sin and cos are exact; pi is 2 quarter turns. *)
(* Every operand of a draw command carries the Python type it has in the   *)
(* program ("int" for the literal arc flags, "float" for everything that   *)
(* went through float arithmetic), because format_number depends on it.    *)
(***************************************************************************)
EXTENDS Integers, Sequences, FiniteSets, TLC

VARIABLES pc, paths, x, y, theta, call, svg, poly

vars == <<pc, paths, x, y, theta, call, svg, poly>>

(***************************************************************************)
(* Bounds of the model.                                                    *)
(***************************************************************************)
MaxSample == 3
MaxBreak == 2
MaxCoef == 2
MaxCalls == 2
MaxBendQuarters == 3

(***************************************************************************)
(* Units and program constants.                                            *)
(***************************************************************************)
TicksPerUnit == 20
pi == 2
X0 == 3
Y0 == 3
Theta0 == 0
NumSamples == 21
Rigidity == 24

(***************************************************************************)
(* Arithmetic helpers.                                                     *)
(***************************************************************************)
RECURSIVE Pow(_, _)
Pow(b, e) == IF e <= 0 THEN 1 ELSE b * Pow(b, e - 1)

RECURSIVE SumSeq(_)
SumSeq(s) == IF s = <<>> THEN 0 ELSE s[1] + SumSeq(Tail(s))

Abs(n) == IF n < 0 THEN -n ELSE n

\* numpy sin and cos, on an angle counted in quarter turns
sin(a) == CASE a % 4 = 0 -> 0 [] a % 4 = 1 -> 1 [] a % 4 = 2 -> 0 [] OTHER -> -1

cos(a) == CASE a % 4 = 0 -> 1 [] a % 4 = 1 -> 0 [] a % 4 = 2 -> -1 [] OTHER -> 0

(***************************************************************************)
(* evaluate_polynomial.  coefficients[i + 1] is the coefficient of x^i.    *)
(***************************************************************************)
y_middle(xs, coefficients) ==
    SumSeq([k \in 1..Len(coefficients) |-> coefficients[k] * Pow(xs, k - 1)])

\* b**(i - 1) with i = 0 is b**(-1): Python raises ZeroDivisionError for b = 0
PowRaises(b, e) == b = 0 /\ e < 0

BreakpointRaises(coefficients, b) ==
    \E k \in 1..Len(coefficients) : PowRaises(b, (k - 1) - 1)

\* coefficient*i*b**(i - 1); for i = 0 the product is 0*(1/b) = 0
SlopeTerm(coefficient, i, b) ==
    IF i = 0 THEN 0 ELSE coefficient * i * Pow(b, i - 1)

y0_lower(coefficients, lower_breakpoint) ==
    SumSeq([k \in 1..Len(coefficients) |->
               coefficients[k] * Pow(lower_breakpoint, k - 1)])

m_lower(coefficients, lower_breakpoint) ==
    SumSeq([k \in 1..Len(coefficients) |->
               SlopeTerm(coefficients[k], k - 1, lower_breakpoint)])

y_lower_NoShift(xs, coefficients, lower_breakpoint) ==
    m_lower(coefficients, lower_breakpoint) * xs
        + y0_lower(coefficients, lower_breakpoint)

y_lower(xs, coefficients, lower_breakpoint) ==
    m_lower(coefficients, lower_breakpoint) * (xs - lower_breakpoint)
        + y0_lower(coefficients, lower_breakpoint)

y0_upper(coefficients, upper_breakpoint) ==
    SumSeq([k \in 1..Len(coefficients) |->
               coefficients[k] * Pow(upper_breakpoint, k - 1)])

m_upper(coefficients, upper_breakpoint) ==
    SumSeq([k \in 1..Len(coefficients) |->
               SlopeTerm(coefficients[k], k - 1, upper_breakpoint)])

y_upper(xs, coefficients, upper_breakpoint) ==
    m_upper(coefficients, upper_breakpoint) * (xs - upper_breakpoint)
        + y0_upper(coefficients, upper_breakpoint)

\* the nested where(): which of the three arrays supplies the sample
where_branch_Inclusive(xs, lower_breakpoint, upper_breakpoint) ==
    IF xs <= lower_breakpoint THEN "lower"
    ELSE IF xs <= upper_breakpoint THEN "middle"
    ELSE "upper"

where_branch(xs, lower_breakpoint, upper_breakpoint) ==
    IF xs < lower_breakpoint THEN "lower"
    ELSE IF xs < upper_breakpoint THEN "middle"
    ELSE "upper"

evaluate_polynomial(xs, coefficients, lower_breakpoint, upper_breakpoint) ==
    IF \/ BreakpointRaises(coefficients, lower_breakpoint)
       \/ BreakpointRaises(coefficients, upper_breakpoint)
    THEN [status |-> "ZeroDivisionError", branch |-> "none", y |-> 0]
    ELSE LET br == where_branch(xs, lower_breakpoint, upper_breakpoint)
         IN  [status |-> "ok",
              branch |-> br,
              y      |-> CASE br = "lower"  -> y_lower(xs, coefficients, lower_breakpoint)
                           [] br = "middle" -> y_middle(xs, coefficients)
                           [] OTHER         -> y_upper(xs, coefficients, upper_breakpoint)]

(***************************************************************************)
(* Path records and draw commands.  F(v) is a float of v ticks, I(n) the   *)
(* Python int n.                                                           *)
(***************************************************************************)
F(v) == [t |-> "float", v |-> v]

I(n) == [t |-> "int", v |-> n]

Cmd(tipe, args) == [tipe |-> tipe, args |-> args]

Path(klass, commands, zorder) ==
    [klass |-> klass, commands |-> commands, zorder |-> zorder]

Last(s) == s[Len(s)]

Reverse(s) == [k \in 1..Len(s) |-> s[Len(s) + 1 - k]]

(***************************************************************************)
(* draw_plane.  right is <<>> for None, <<r>> for a given value.           *)
(***************************************************************************)
draw_plane_right(left, right) == IF right = <<>> THEN left ELSE right[1]

draw_plane(graphic, px, py, th, left, right) ==
    LET r == draw_plane_right(left, right)
        line == << Cmd("M", <<F(px + left * sin(th)), F(py - left * cos(th))>>),
                   Cmd("L", <<F(px - r * sin(th)), F(py + r * cos(th))>>) >>
    IN  [status |-> "ok",
         graphic |-> Append(graphic, Path("plane", line, 1)),
         ret |-> <<>>]

(***************************************************************************)
(* draw_drift_length                                                       *)
(***************************************************************************)
drift_line_Swapped(px, py, th, length) ==
    << Cmd("M", <<F(px), F(py)>>),
       Cmd("L", <<F(px + length * sin(th)), F(py + length * cos(th))>>) >>

drift_line(px, py, th, length) ==
    << Cmd("M", <<F(px), F(py)>>),
       Cmd("L", <<F(px + length * cos(th)), F(py + length * sin(th))>>) >>

draw_drift_length(graphic, px, py, th, length) ==
    LET line == drift_line(px, py, th, length)
    IN  [status |-> "ok",
         graphic |-> Append(graphic, Path("central-ray", line, 2)),
         ret |-> <<Last(line).args[1].v, Last(line).args[2].v>>]

(***************************************************************************)
(* draw_multipole_magnet                                                   *)
(***************************************************************************)
multipole_block_Crossed(px, py, th, length, radius) ==
    << Cmd("M", <<F(px + radius * sin(th)), F(py - radius * cos(th))>>),
       Cmd("L", <<F(px - radius * sin(th)), F(py + radius * cos(th))>>),
       Cmd("L", <<F(px + radius * sin(th) + length * cos(th)),
                  F(py - radius * cos(th) + length * sin(th))>>),
       Cmd("L", <<F(px - radius * sin(th) + length * cos(th)),
                  F(py + radius * cos(th) + length * sin(th))>>),
       Cmd("Z", <<>>) >>

multipole_block(px, py, th, length, radius) ==
    << Cmd("M", <<F(px + radius * sin(th)), F(py - radius * cos(th))>>),
       Cmd("L", <<F(px - radius * sin(th)), F(py + radius * cos(th))>>),
       Cmd("L", <<F(px - radius * sin(th) + length * cos(th)),
                  F(py + radius * cos(th) + length * sin(th))>>),
       Cmd("L", <<F(px + radius * sin(th) + length * cos(th)),
                  F(py - radius * cos(th) + length * sin(th))>>),
       Cmd("Z", <<>>) >>

multipole_line(px, py, th, length) ==
    << Cmd("M", <<F(px), F(py)>>),
       Cmd("L", <<F(px + length * cos(th)), F(py + length * sin(th))>>) >>

draw_multipole_magnet(graphic, px, py, th, length, radius) ==
    LET block == multipole_block(px, py, th, length, radius)
        line == multipole_line(px, py, th, length)
    IN  [status |-> "ok",
         graphic |-> Append(Append(graphic, Path("magnet", block, 1)),
                            Path("central-ray", line, 2)),
         ret |-> <<Last(line).args[1].v, Last(line).args[2].v>>]

(***************************************************************************)
(* draw_bending_magnet.  Rigidity is the central momentum over the charge, *)
(* in ticks times field units; length is counted in ticks of arc per       *)
(* quarter turn of radian, so that length / radius is a number of quarter  *)
(* turns.  The inputs are drawn so that the divisions are exact.           *)
(***************************************************************************)
central_bend_radius(field) == Rigidity \div field

bend_angle(length, field) == length \div central_bend_radius(field)

x_center(px, th, R) == px - R * sin(th)

y_center_Mirrored(py, th, R) == py - R * cos(th)

y_center(py, th, R) == py + R * cos(th)

min_extended_radius(min_bend_radius, gap_height) ==
    min_bend_radius - (3 * gap_height) \div 2

max_extended_radius(max_bend_radius, gap_height) ==
    max_bend_radius + (3 * gap_height) \div 2

linspace(a, b, num) == [k \in 1..num |-> a + ((k - 1) * (b - a)) \div (num - 1)]

\* hypot(dx, dy) <= r, compared exactly
HypotAtMost(dx, dy, r) == r >= 0 /\ dx * dx + dy * dy <= r * r

\* the face sampled at offsets xi with axial offsets zeta, laid out around
\* the centre along heading th, then clipped to the extended radius
pole_face(xc, yc, R, xi, zeta, th, max_ext) ==
    LET pts == [k \in 1..Len(xi) |->
                   << xc + (R + xi[k]) * sin(th) + zeta[k] * cos(th),
                      yc - (R + xi[k]) * cos(th) + zeta[k] * sin(th) >>]
    IN  SelectSeq(pts, LAMBDA p : HypotAtMost(p[1] - xc, p[2] - yc, max_ext))

large_arc_outer(angle) == IF angle > pi THEN 1 ELSE 0

large_arc_inner_AtLeast(angle) == IF angle >= pi THEN 1 ELSE 0

large_arc_inner(angle) == IF angle > pi THEN 1 ELSE 0

large_arc_reference(angle) == IF angle > pi THEN 1 ELSE 0

LineTo(pts) == [k \in 1..Len(pts) |-> Cmd("L", <<F(pts[k][1]), F(pts[k][2])>>)]

magnet_block(back, front, xc, yc, th, angle, min_ext, max_ext) ==
    << Cmd("M", <<F(Last(back)[1]), F(Last(back)[2])>>),
       Cmd("A", <<F(max_ext), F(max_ext), I(0), I(large_arc_outer(angle)), I(1),
                  F(Last(front)[1]), F(Last(front)[2])>>) >>
    \o LineTo(Reverse(SubSeq(front, 1, Len(front) - 1)))
    \o << Cmd("L", <<F(xc + min_ext * sin(th + angle)),
                     F(yc - min_ext * cos(th + angle))>>),
          Cmd("A", <<F(min_ext), F(min_ext), I(0), I(large_arc_inner(angle)), I(0),
                     F(xc + min_ext * sin(th)), F(yc - min_ext * cos(th))>>) >>
    \o LineTo(back)
    \o << Cmd("Z", <<>>) >>

reference_arc(xc, yc, th, angle, radius) ==
    << Cmd("M", <<F(xc + radius * sin(th)), F(yc - radius * cos(th))>>),
       Cmd("A", <<F(radius), F(radius), I(0), I(large_arc_reference(angle)), I(1),
                  F(xc + radius * sin(th + angle)),
                  F(yc - radius * cos(th + angle))>>) >>

\* the loop over (max_bend_radius, guide), (min_bend_radius, guide),
\* (central_bend_radius, central-ray)
reference_arcs_CentralFirst(xc, yc, th, angle, min_bend_radius, max_bend_radius, R) ==
    << Path("central-ray", reference_arc(xc, yc, th, angle, R), 2),
       Path("guide", reference_arc(xc, yc, th, angle, max_bend_radius), 2),
       Path("guide", reference_arc(xc, yc, th, angle, min_bend_radius), 2) >>

reference_arcs(xc, yc, th, angle, min_bend_radius, max_bend_radius, R) ==
    << Path("guide", reference_arc(xc, yc, th, angle, max_bend_radius), 2),
       Path("guide", reference_arc(xc, yc, th, angle, min_bend_radius), 2),
       Path("central-ray", reference_arc(xc, yc, th, angle, R), 2) >>

draw_bending_magnet(graphic, px, py, th, length, field, min_bend_radius, max_bend_radius, gap_height, in_shape_parameters, out_shape_parameters) ==
    LET R == central_bend_radius(field)
        angle == bend_angle(length, field)
        xc == x_center(px, th, R)
        yc == y_center(py, th, R)
        min_ext == min_extended_radius(min_bend_radius, gap_height)
        max_ext == max_extended_radius(max_bend_radius, gap_height)
        xi == linspace(min_ext - R, max_ext - R, NumSamples)
        lo == min_bend_radius - R
        hi == max_bend_radius - R
        in_c == <<0>> \o in_shape_parameters
        out_c == <<0>> \o out_shape_parameters
        raises == \/ BreakpointRaises(in_c, lo) \/ BreakpointRaises(in_c, hi)
                  \/ BreakpointRaises(out_c, lo) \/ BreakpointRaises(out_c, hi)
        zeta_back == [k \in 1..Len(xi) |-> evaluate_polynomial(xi[k], in_c, lo, hi).y]
        zeta_front == [k \in 1..Len(xi) |-> 0 - evaluate_polynomial(xi[k], out_c, lo, hi).y]
        back == pole_face(xc, yc, R, xi, zeta_back, th, max_ext)
        front == pole_face(xc, yc, R, xi, zeta_front, th + angle, max_ext)
        arcs == reference_arcs(xc, yc, th, angle, min_bend_radius, max_bend_radius, R)
        arc == Last(arcs).commands
    IN  IF raises
        THEN [status |-> "ZeroDivisionError", graphic |-> graphic, ret |-> <<>>]
        ELSE IF back = <<>> \/ front = <<>>
        THEN [status |-> "IndexError", graphic |-> graphic, ret |-> <<>>]
        ELSE [status |-> "ok",
              graphic |-> Append(graphic,
                                 Path("magnet",
                                      magnet_block(back, front, xc, yc, th, angle,
                                                   min_ext, max_ext), 1))
                          \o arcs,
              ret |-> << Last(arc).args[6].v, Last(arc).args[7].v, th + angle >>]

(***************************************************************************)
(* format_number and write_SVG.  The text of a number is kept as its       *)
(* format, sign, whole part and six decimals.                              *)
(***************************************************************************)
format_number(a) ==
    IF a.t = "int"
    THEN [status |-> "ok", kind |-> "d", neg |-> a.v < 0, whole |-> Abs(a.v), frac |-> 0]
    ELSE IF a.v % TicksPerUnit = 0
    THEN [status |-> "ValueError", kind |-> "d", neg |-> FALSE, whole |-> 0, frac |-> 0]
    ELSE [status |-> "ok", kind |-> "f", neg |-> a.v < 0,
          whole |-> Abs(a.v) \div TicksPerUnit,
          frac |-> ((Abs(a.v) % TicksPerUnit) * 1000000) \div TicksPerUnit]

RECURSIVE InsertByZorder(_, _, _)
InsertByZorder(s, i, graphic) ==
    IF s = <<>> THEN <<i>>
    ELSE IF graphic[s[1]].zorder <= graphic[i].zorder
    THEN <<s[1]>> \o InsertByZorder(Tail(s), i, graphic)
    ELSE <<i>> \o s

RECURSIVE SortPrefix(_, _)
SortPrefix(graphic, n) ==
    IF n = 0 THEN <<>> ELSE InsertByZorder(SortPrefix(graphic, n - 1), n, graphic)

\* sorted(paths, key=zorder), as the indices of paths in output order
sorted_by_zorder(graphic) == SortPrefix(graphic, Len(graphic))

path_data(path) ==
    [k \in 1..Len(path.commands) |->
        [tipe |-> path.commands[k].tipe,
         args |-> [j \in 1..Len(path.commands[k].args) |->
                      format_number(path.commands[k].args[j])]]]

path_data_raises(path) ==
    \E k \in 1..Len(path.commands) : \E j \in 1..Len(path.commands[k].args) :
        format_number(path.commands[k].args[j]).status # "ok"

write_SVG(graphic) ==
    LET order == sorted_by_zorder(graphic)
    IN  IF \E k \in 1..Len(graphic) : path_data_raises(graphic[k])
        THEN [status |-> "ValueError", elems |-> <<>>, order |-> <<>>]
        ELSE [status |-> "ok",
              elems |-> [k \in 1..Len(order) |->
                            [klass |-> graphic[order[k]].klass,
                             d |-> path_data(graphic[order[k]])]],
              order |-> order]

(***************************************************************************)
(* Specification of the evaluator alone: one call on drawn inputs.         *)
(***************************************************************************)
NoPoly == [x |-> 0, c |-> <<>>, lo |-> 0, hi |-> 0,
           status |-> "none", branch |-> "none", y |-> 0]

NoCall == [fn |-> "none", status |-> "none", x0 |-> 0, y0 |-> 0, th0 |-> 0,
           n0 |-> 0, args |-> <<>>, bend_angle |-> 0, ret |-> <<>>]

NoSvg == [status |-> "none", elems |-> <<>>, order |-> <<>>]

CoefLists == [1..3 -> (0 - 1)..MaxCoef]

InitPoly ==
    /\ pc = "poly"
    /\ paths = <<>>
    /\ x = 0
    /\ y = 0
    /\ theta = 0
    /\ call = NoCall
    /\ svg = NoSvg
    /\ \E xs \in (0 - MaxSample)..MaxSample, c \in CoefLists,
          lo \in (0 - MaxBreak)..MaxBreak, hi \in (0 - MaxBreak)..MaxBreak :
          /\ lo <= hi
          /\ poly = [NoPoly EXCEPT !.x = xs, !.c = c, !.lo = lo, !.hi = hi]

EvaluatePolynomial ==
    /\ pc = "poly"
    /\ LET r == evaluate_polynomial(poly.x, poly.c, poly.lo, poly.hi)
       IN  poly' = [poly EXCEPT !.status = r.status, !.branch = r.branch, !.y = r.y]
    /\ pc' = "polydone"
    /\ UNCHANGED <<paths, x, y, theta, call, svg>>

NextPoly == EvaluatePolynomial

SpecPoly == InitPoly /\ [][NextPoly]_vars

(***************************************************************************)
(* Specification of the renderers and the serializer: from a drawn ray     *)
(* state, up to MaxCalls renderer calls on drawn arguments, the caller     *)
(* taking the returned position (and heading) as the new ray state, then   *)
(* write_SVG.  call records the last call: its name, the ray state and     *)
(* the length of the path list before it, and what it returned.            *)
(***************************************************************************)
PlaneArgs == {<<5, <<>>>>, <<5, <<7>>>>}

DriftLengths == {7, 40}

MultipoleArgs == {<<7, 5>>, <<60, 20>>}

\* field, min_bend_radius, max_bend_radius, gap_height, in and out shapes
BendArgs ==
    { <<2, 8, 22, 2, <<1, 0, 0>>, <<0, 1, 0>> >>,
      <<1, 8, 22, 2, <<0, 0, 0>>, <<0, 0, 0>> >>,
      <<2, 12, 26, 2, <<0, 0, 0>>, <<0, 0, 0>> >> }

Init ==
    /\ pc = "calls"
    /\ paths = <<>>
    /\ \E p \in {<<0, 0>>, <<X0, Y0>>} : x = p[1] /\ y = p[2]
    /\ theta \in 0..3
    /\ call = NoCall
    /\ svg = NoSvg
    /\ poly = NoPoly

CallRecord(fn, r, args, angle) ==
    [fn |-> fn, status |-> r.status, x0 |-> x, y0 |-> y, th0 |-> theta,
     n0 |-> Len(paths), args |-> args, bend_angle |-> angle, ret |-> r.ret]

Calls == IF call.fn = "none" THEN 0 ELSE call.args[1]

DrawPlane ==
    /\ pc = "calls"
    /\ Calls < MaxCalls
    /\ \E a \in PlaneArgs :
          LET r == draw_plane(paths, x, y, theta, a[1], a[2])
          IN  /\ paths' = r.graphic
              /\ call' = CallRecord("draw_plane", r, <<Calls + 1, a[1]>>, 0)
    /\ UNCHANGED <<pc, x, y, theta, svg, poly>>

DrawDriftLength ==
    /\ pc = "calls"
    /\ Calls < MaxCalls
    /\ \E length \in DriftLengths :
          LET r == draw_drift_length(paths, x, y, theta, length)
          IN  /\ paths' = r.graphic
              /\ x' = r.ret[1]
              /\ y' = r.ret[2]
              /\ call' = CallRecord("draw_drift_length", r, <<Calls + 1, length>>, 0)
    /\ UNCHANGED <<pc, theta, svg, poly>>

DrawMultipoleMagnet ==
    /\ pc = "calls"
    /\ Calls < MaxCalls
    /\ \E a \in MultipoleArgs :
          LET r == draw_multipole_magnet(paths, x, y, theta, a[1], a[2])
          IN  /\ paths' = r.graphic
              /\ x' = r.ret[1]
              /\ y' = r.ret[2]
              /\ call' = CallRecord("draw_multipole_magnet", r,
                                    <<Calls + 1, a[1], a[2]>>, 0)
    /\ UNCHANGED <<pc, theta, svg, poly>>

DrawBendingMagnet ==
    /\ pc = "calls"
    /\ Calls < MaxCalls
    /\ \E a \in BendArgs, quarters \in 1..MaxBendQuarters :
          LET length == quarters * central_bend_radius(a[1])
              r == draw_bending_magnet(paths, x, y, theta, length, a[1],
                                       a[2], a[3], a[4], a[5], a[6])
          IN  /\ paths' = r.graphic
              /\ call' = CallRecord("draw_bending_magnet", r,
                                    <<Calls + 1, length, a[1], a[2], a[3]>>,
                                    bend_angle(length, a[1]))
              /\ IF r.status = "ok"
                 THEN /\ x' = r.ret[1]
                      /\ y' = r.ret[2]
                      /\ theta' = r.ret[3]
                      /\ pc' = pc
                 ELSE /\ pc' = "crashed"
                      /\ UNCHANGED <<x, y, theta>>
    /\ UNCHANGED <<svg, poly>>

WriteSVG ==
    /\ pc = "calls"
    /\ svg' = write_SVG(paths)
    /\ pc' = IF svg'.status = "ok" THEN "done" ELSE "crashed"
    /\ UNCHANGED <<paths, x, y, theta, call, poly>>

Next ==
    \/ DrawPlane
    \/ DrawDriftLength
    \/ DrawMultipoleMagnet
    \/ DrawBendingMagnet
    \/ WriteSVG

Spec == Init /\ [][Next]_vars

(***************************************************************************)
(* Specification of draw_magnets: the fixed sequence of renderer calls     *)
(* from (0.15, 0.15) with heading 0, then write_SVG.  The parameters are   *)
(* drawn where they are used; each is used once.                           *)
(***************************************************************************)
FoilWidths == {10}

ApertureWidths == {14}

HodoscopeArgs == {<<9, <<11>>>>, <<5, <<7>>>>}

InitPipeline ==
    /\ pc = "foil"
    /\ paths = <<>>
    /\ x = X0
    /\ y = Y0
    /\ theta = Theta0
    /\ call = NoCall
    /\ svg = NoSvg
    /\ poly = NoPoly

FoilPlane ==
    /\ pc = "foil"
    /\ \E foil_width \in FoilWidths :
          LET r == draw_plane(paths, x, y, theta, foil_width \div 2, <<>>)
          IN  /\ paths' = r.graphic
              /\ call' = CallRecord("draw_plane", r, <<1, foil_width \div 2>>, 0)
    /\ pc' = "drift_pre_aperture"
    /\ UNCHANGED <<x, y, theta, svg, poly>>

DriftPreAperture ==
    /\ pc = "drift_pre_aperture"
    /\ \E p_drift_pre_aperture \in DriftLengths :
          LET r == draw_drift_length(paths, x, y, theta, p_drift_pre_aperture)
          IN  /\ paths' = r.graphic
              /\ x' = r.ret[1]
              /\ y' = r.ret[2]
              /\ call' = CallRecord("draw_drift_length", r,
                                    <<2, p_drift_pre_aperture>>, 0)
    /\ pc' = "aperture"
    /\ UNCHANGED <<theta, svg, poly>>

AperturePlane ==
    /\ pc = "aperture"
    /\ \E aperture_width \in ApertureWidths :
          LET r == draw_plane(paths, x, y, theta, aperture_width \div 2, <<>>)
          IN  /\ paths' = r.graphic
              /\ call' = CallRecord("draw_plane", r, <<3, aperture_width \div 2>>, 0)
    /\ pc' = "multipole"
    /\ UNCHANGED <<x, y, theta, svg, poly>>

Multipole ==
    /\ pc = "multipole"
    /\ \E a \in MultipoleArgs :
          LET r == draw_multipole_magnet(paths, x, y, theta, a[1], a[2])
          IN  /\ paths' = r.graphic
              /\ x' = r.ret[1]
              /\ y' = r.ret[2]
              /\ call' = CallRecord("draw_multipole_magnet", r, <<4, a[1], a[2]>>, 0)
    /\ pc' = "drift_pre_bend"
    /\ UNCHANGED <<theta, svg, poly>>

DriftPreBend ==
    /\ pc = "drift_pre_bend"
    /\ \E p_drift_pre_bend \in DriftLengths :
          LET r == draw_drift_length(paths, x, y, theta, p_drift_pre_bend)
          IN  /\ paths' = r.graphic
              /\ x' = r.ret[1]
              /\ y' = r.ret[2]
              /\ call' = CallRecord("draw_drift_length", r, <<5, p_drift_pre_bend>>, 0)
    /\ pc' = "bend"
    /\ UNCHANGED <<theta, svg, poly>>

Bend ==
    /\ pc = "bend"
    /\ \E a \in BendArgs, quarters \in 1..MaxBendQuarters :
          LET length == quarters * central_bend_radius(a[1])
              r == draw_bending_magnet(paths, x, y, theta, length, a[1],
                                       a[2], a[3], a[4], a[5], a[6])
          IN  /\ paths' = r.graphic
              /\ call' = CallRecord("draw_bending_magnet", r,
                                    <<6, length, a[1], a[2], a[3]>>,
                                    bend_angle(length, a[1]))
              /\ IF r.status = "ok"
                 THEN /\ x' = r.ret[1]
                      /\ y' = r.ret[2]
                      /\ theta' = r.ret[3]
                      /\ pc' = "drift_post_bend"
                 ELSE /\ pc' = "crashed"
                      /\ UNCHANGED <<x, y, theta>>
    /\ UNCHANGED <<svg, poly>>

DriftPostBend ==
    /\ pc = "drift_post_bend"
    /\ \E p_drift_post_bend \in DriftLengths :
          LET r == draw_drift_length(paths, x, y, theta, p_drift_post_bend)
          IN  /\ paths' = r.graphic
              /\ x' = r.ret[1]
              /\ y' = r.ret[2]
              /\ call' = CallRecord("draw_drift_length", r, <<7, p_drift_post_bend>>, 0)
    /\ pc' = "hodoscope"
    /\ UNCHANGED <<theta, svg, poly>>

HodoscopePlane ==
    /\ pc = "hodoscope"
    /\ \E a \in HodoscopeArgs :
          LET r == draw_plane(paths, x, y, theta, a[1], a[2])
          IN  /\ paths' = r.graphic
              /\ call' = CallRecord("draw_plane", r, <<8, a[1]>>, 0)
    /\ pc' = "write"
    /\ UNCHANGED <<x, y, theta, svg, poly>>

WritePicture ==
    /\ pc = "write"
    /\ svg' = write_SVG(paths)
    /\ pc' = IF svg'.status = "ok" THEN "done" ELSE "crashed"
    /\ UNCHANGED <<paths, x, y, theta, call, poly>>

NextPipeline ==
    \/ FoilPlane
    \/ DriftPreAperture
    \/ AperturePlane
    \/ Multipole
    \/ DriftPreBend
    \/ Bend
    \/ DriftPostBend
    \/ HodoscopePlane
    \/ WritePicture

SpecPipeline == InitPipeline /\ [][NextPipeline]_vars

(***************************************************************************)
(* Claims about evaluate_polynomial, checked under SpecPoly.               *)
(***************************************************************************)
\* the polynomial and its derivative as the claims state them
PlainPolynomial(c, t) == SumSeq([k \in 1..Len(c) |-> c[k] * Pow(t, k - 1)])

PlainDerivative(c, t) ==
    SumSeq([k \in 1..Len(c) |-> IF k = 1 THEN 0 ELSE c[k] * (k - 1) * Pow(t, k - 2)])

TangentLine(c, b, t) == PlainPolynomial(c, b) + PlainDerivative(c, b) * (t - b)

\* C1: for every sample, coefficient list and breakpoints lo <= hi the call
\* returns p(x) strictly between the breakpoints, the tangent line at lo at
\* or below lo, and the tangent line at hi at or above hi.
C1_PiecewiseValue ==
    pc = "polydone" =>
        /\ poly.status = "ok"
        /\ (poly.lo < poly.x /\ poly.x < poly.hi)
               => poly.y = PlainPolynomial(poly.c, poly.x)
        /\ poly.x <= poly.lo => poly.y = TangentLine(poly.c, poly.lo, poly.x)
        /\ poly.x >= poly.hi => poly.y = TangentLine(poly.c, poly.hi, poly.x)

SpecExample == poly.c = <<0, 2, 0>> /\ poly.lo = 0 - 1 /\ poly.hi = 1

\* C7 (as amended): coefficients [0, 2, 0] with breakpoints -1 and 1 give
\* -2, 0 and 2 at x = -1, 0 and 1, and give -4 at x = -2.
C7_ExampleValues ==
    (pc = "polydone" /\ SpecExample) =>
        /\ poly.status = "ok"
        /\ poly.x = 0 - 1 => poly.y = 0 - 2
        /\ poly.x = 0 => poly.y = 0
        /\ poly.x = 1 => poly.y = 2
        /\ poly.x = 0 - 2 => poly.y = 0 - 4

C7_Witness ==
    pc = "polydone" /\ SpecExample /\ poly.x = 0 - 2 /\ poly.y = 0 - 4

\* C7 as originally stated: the value at x = -2 is -2.
C7_Original ==
    (pc = "polydone" /\ SpecExample) =>
        /\ poly.x = 0 - 1 => poly.y = 0 - 2
        /\ poly.x = 0 => poly.y = 0
        /\ poly.x = 1 => poly.y = 2
        /\ poly.x = 0 - 2 => poly.y = 0 - 2

\* C8 (as amended): both comparisons are strict, so a sample equal to the
\* upper breakpoint is taken from the upper extrapolation branch, and a
\* sample equal to the lower breakpoint (below the upper one) is taken from
\* the middle branch.
C8_BoundaryBranches ==
    (pc = "polydone" /\ poly.status = "ok") =>
        /\ poly.x = poly.hi => poly.branch = "upper"
        /\ (poly.x = poly.lo /\ poly.lo < poly.hi) => poly.branch = "middle"
        /\ poly.x < poly.lo => poly.branch = "lower"

C8_Witness ==
    /\ pc = "polydone"
    /\ poly.status = "ok"
    /\ poly.x = poly.hi
    /\ poly.lo < poly.hi
    /\ poly.branch = "upper"

\* C8 as originally stated: a sample equal to the upper breakpoint is
\* evaluated by the middle branch.
C8_Original ==
    (pc = "polydone" /\ poly.status = "ok" /\ poly.x = poly.hi)
        => poly.branch = "middle"

\* the value part of C1 away from zero breakpoints
PiecewiseValueNonzeroBreakpoints ==
    (pc = "polydone" /\ poly.lo # 0 /\ poly.hi # 0) =>
        /\ poly.status = "ok"
        /\ (poly.lo < poly.x /\ poly.x < poly.hi)
               => poly.y = PlainPolynomial(poly.c, poly.x)
        /\ poly.x <= poly.lo => poly.y = TangentLine(poly.c, poly.lo, poly.x)
        /\ poly.x >= poly.hi => poly.y = TangentLine(poly.c, poly.hi, poly.x)

(***************************************************************************)
(* Claims about the renderers and the serializer, checked under Spec.      *)
(***************************************************************************)
\* the step is a call of renderer fn (every call renews the call record)
Called(fn) == call' # call /\ call'.fn = fn

Point(c) == <<c.args[Len(c.args) - 1].v, c.args[Len(c.args)].v>>

Tipes(p) == [k \in 1..Len(p.commands) |-> p.commands[k].tipe]

Points(p) == [k \in 1..Len(p.commands) |->
                 IF p.commands[k].args = <<>> THEN <<>> ELSE Point(p.commands[k])]

StartOf(p) == Point(p.commands[1])

EndOf(p) == Point(Last(p.commands))

IsInteger(a) == a.t = "int" \/ a.v % TicksPerUnit = 0

\* C2: in the five arc commands one draw_bending_magnet call emits, the
\* large-arc flag is 0 for a bend angle in (0, pi] and 1 for a bend angle in
\* (pi, 2*pi), and the five arcs carry the same flag.
ArcFlags(p) ==
    LET arcs == SelectSeq(p.commands, LAMBDA c : c.tipe = "A")
    IN  [k \in 1..Len(arcs) |-> arcs[k].args[4]]

BendFlags ==
    ArcFlags(paths[call.n0 + 1]) \o ArcFlags(paths[call.n0 + 2])
        \o ArcFlags(paths[call.n0 + 3]) \o ArcFlags(paths[call.n0 + 4])

BendCompleted == call.fn = "draw_bending_magnet" /\ call.status = "ok"

C2_LargeArcFlag ==
    BendCompleted =>
        /\ Len(BendFlags) = 5
        /\ \A k \in 1..Len(BendFlags) : BendFlags[k] = BendFlags[1]
        /\ (0 < call.bend_angle /\ call.bend_angle <= pi)
               => \A k \in 1..Len(BendFlags) : BendFlags[k] = I(0)
        /\ (pi < call.bend_angle /\ call.bend_angle < 2 * pi)
               => \A k \in 1..Len(BendFlags) : BendFlags[k] = I(1)

\* a bend of exactly pi drawn with flag 0, followed by a bend beyond pi
\* drawn with flag 1
C2_Witness ==
    /\ BendCompleted
    /\ call.n0 = 4
    /\ call.bend_angle = pi + 1
    /\ \A k \in 1..Len(BendFlags) : BendFlags[k] = I(1)
    /\ paths[1].klass = "magnet"
    /\ ArcFlags(paths[1]) = <<I(0), I(0)>>
    /\ paths[4].klass = "central-ray"
    /\ ArcFlags(paths[4]) = <<I(0)>>
    /\ LET s == StartOf(paths[4])
           e == EndOf(paths[4])
           r == paths[4].commands[2].args[1].v
       IN  (e[1] - s[1]) * (e[1] - s[1]) + (e[2] - s[2]) * (e[2] - s[2]) = 4 * r * r

\* C3: write_SVG emits exactly one path element per record, by stacking
\* order ascending, records of equal stacking order in the order they were
\* appended.
StableOrder(order, graphic) ==
    /\ Len(order) = Len(graphic)
    /\ \A i \in 1..Len(graphic) : \E k \in 1..Len(order) : order[k] = i
    /\ \A k \in 1..Len(order) : \A l \in 1..Len(order) :
          k < l =>
             \/ graphic[order[k]].zorder < graphic[order[l]].zorder
             \/ /\ graphic[order[k]].zorder = graphic[order[l]].zorder
                /\ order[k] < order[l]

C3_OneElementPerRecordStable ==
    svg.status # "none" =>
        /\ svg.status = "ok"
        /\ Len(svg.elems) = Len(paths)
        /\ StableOrder(svg.order, paths)
        /\ \A k \in 1..Len(svg.elems) : svg.elems[k].klass = paths[svg.order[k]].klass

\* C4: every operand of every draw command is formatted successfully, as an
\* integer literal when its value is an exact integer (int flag or float
\* coordinate alike) and with six decimals otherwise.
C4_EveryOperandFormatted ==
    svg.status # "none" =>
        /\ svg.status = "ok"
        /\ \A k \in 1..Len(svg.elems) :
              LET p == paths[svg.order[k]]
                  d == svg.elems[k].d
              IN  \A c \in 1..Len(p.commands) : \A j \in 1..Len(p.commands[c].args) :
                     /\ d[c].args[j].status = "ok"
                     /\ d[c].args[j].kind =
                           IF IsInteger(p.commands[c].args[j]) THEN "d" ELSE "f"

\* what write_SVG does deliver when no operand is an integer-valued float
SerializedWhenNoIntegralFloat ==
    svg.status = "ok" =>
        /\ Len(svg.elems) = Len(paths)
        /\ StableOrder(svg.order, paths)
        /\ \A k \in 1..Len(svg.elems) :
              LET p == paths[svg.order[k]]
                  d == svg.elems[k].d
              IN  /\ svg.elems[k].klass = p.klass
                  /\ \A c \in 1..Len(p.commands) : \A j \in 1..Len(p.commands[c].args) :
                        d[c].args[j].kind = IF IsInteger(p.commands[c].args[j])
                                            THEN "d" ELSE "f"

\* C5: draw_drift_length at (x, y) with heading h appends exactly one
\* record, of class central-ray, made of a move-to at (x, y) and a line-to at
\* (x + length*cos h, y + length*sin h), and returns that end point; from
\* (0, 0) with heading 0 and length 2 it returns (2, 0).
C5_Drift ==
    [][Called("draw_drift_length") =>
          LET length == call'.args[2]
              end == <<x + length * cos(theta), y + length * sin(theta)>>
              p == Last(paths')
          IN  /\ Len(paths') = Len(paths) + 1
              /\ SubSeq(paths', 1, Len(paths)) = paths
              /\ p.klass = "central-ray"
              /\ Tipes(p) = <<"M", "L">>
              /\ Points(p) = <<<<x, y>>, end>>
              /\ Len(p.commands[1].args) = 2
              /\ Len(p.commands[2].args) = 2
              /\ call'.ret = end
              /\ <<x', y'>> = end
              /\ (x = 0 /\ y = 0 /\ theta = 0 /\ length = 2 * TicksPerUnit)
                    => call'.ret = <<2 * TicksPerUnit, 0>>
    ]_vars

C5_Witness ==
    /\ call.fn = "draw_drift_length"
    /\ call.x0 = 0 /\ call.y0 = 0 /\ call.th0 = 0
    /\ call.args[2] = 2 * TicksPerUnit
    /\ call.ret = <<2 * TicksPerUnit, 0>>
    /\ call.n0 > 0
    /\ Len(paths) = call.n0 + 1
    /\ Last(paths).klass = "central-ray"

\* C6: draw_multipole_magnet appends exactly two records: a closed polygon
\* of class magnet through the two points at transverse distance radius on
\* either side of the entry point and the same two points shifted by length
\* along the heading, then a central-ray segment from the entry point to the
\* point at distance length; it returns that point and leaves the heading.
\* From (0, 0), heading 0, radius 1, length 3: corners (0,-1), (0,1), (3,1),
\* (3,-1), ray (0,0) to (3,0), returned position (3,0).
C6_Multipole ==
    [][Called("draw_multipole_magnet") =>
          LET length == call'.args[2]
              radius == call'.args[3]
              ax == length * cos(theta)
              ay == length * sin(theta)
              tx == radius * sin(theta)
              ty == radius * cos(theta)
              end == <<x + ax, y + ay>>
              block == paths'[Len(paths) + 1]
              line == paths'[Len(paths) + 2]
          IN  /\ Len(paths') = Len(paths) + 2
              /\ SubSeq(paths', 1, Len(paths)) = paths
              /\ block.klass = "magnet"
              /\ Tipes(block) = <<"M", "L", "L", "L", "Z">>
              /\ Points(block) = << <<x + tx, y - ty>>, <<x - tx, y + ty>>,
                                    <<x - tx + ax, y + ty + ay>>,
                                    <<x + tx + ax, y - ty + ay>>, <<>> >>
              /\ line.klass = "central-ray"
              /\ Tipes(line) = <<"M", "L">>
              /\ Points(line) = <<<<x, y>>, end>>
              /\ call'.ret = end
              /\ <<x', y'>> = end
              /\ theta' = theta
              /\ (/\ x = 0 /\ y = 0 /\ theta = 0
                  /\ radius = TicksPerUnit /\ length = 3 * TicksPerUnit)
                    => /\ Points(block) =
                             << <<0, 0 - TicksPerUnit>>, <<0, TicksPerUnit>>,
                                <<3 * TicksPerUnit, TicksPerUnit>>,
                                <<3 * TicksPerUnit, 0 - TicksPerUnit>>, <<>> >>
                       /\ Points(line) = <<<<0, 0>>, <<3 * TicksPerUnit, 0>>>>
                       /\ call'.ret = <<3 * TicksPerUnit, 0>>
    ]_vars

C6_Witness ==
    /\ call.fn = "draw_multipole_magnet"
    /\ call.x0 = 0 /\ call.y0 = 0 /\ call.th0 = 0
    /\ call.args[2] = 3 * TicksPerUnit
    /\ call.args[3] = TicksPerUnit
    /\ call.ret = <<3 * TicksPerUnit, 0>>
    /\ theta = 0
    /\ Len(paths) = call.n0 + 2
    /\ Points(paths[call.n0 + 1]) =
          << <<0, 0 - TicksPerUnit>>, <<0, TicksPerUnit>>,
             <<3 * TicksPerUnit, TicksPerUnit>>,
             <<3 * TicksPerUnit, 0 - TicksPerUnit>>, <<>> >>

\* C9: a draw_bending_magnet call that completes appends exactly four
\* records in this order: the closed magnet polygon (magnet, stacking order
\* 1), the max-radius arc (guide), the min-radius arc (guide) and the
\* central-radius arc (central-ray), the arcs with stacking order 2; it
\* returns the end point of the central-radius arc and old heading + bend
\* angle, with bend angle = length / central bend radius.
ArcRadius(p) == p.commands[2].args[1].v

C9_BendingMagnet ==
    [][(Called("draw_bending_magnet") /\ call'.status = "ok") =>
          LET n == Len(paths)
              length == call'.args[2]
              block == paths'[n + 1]
              outer == paths'[n + 2]
              inner == paths'[n + 3]
              central == paths'[n + 4]
              angle == call'.bend_angle
          IN  /\ Len(paths') = n + 4
              /\ SubSeq(paths', 1, n) = paths
              /\ block.klass = "magnet" /\ block.zorder = 1
              /\ Tipes(block)[1] = "M" /\ Last(Tipes(block)) = "Z"
              /\ outer.klass = "guide" /\ outer.zorder = 2
              /\ inner.klass = "guide" /\ inner.zorder = 2
              /\ central.klass = "central-ray" /\ central.zorder = 2
              /\ \A p \in {outer, inner, central} : Tipes(p) = <<"M", "A">>
              /\ ArcRadius(outer) = call'.args[5]
              /\ ArcRadius(inner) = call'.args[4]
              /\ ArcRadius(central) * call'.args[3] = Rigidity
              /\ angle * ArcRadius(central) = length
              /\ call'.ret = <<EndOf(central)[1], EndOf(central)[2], theta + angle>>
              /\ <<x', y', theta'>> = call'.ret
    ]_vars

C9_Witness ==
    /\ BendCompleted
    /\ call.n0 > 0
    /\ Len(paths) = call.n0 + 4
    /\ call.bend_angle = 1
    /\ call.ret = << EndOf(paths[call.n0 + 4])[1], EndOf(paths[call.n0 + 4])[2],
                     call.th0 + 1 >>
    /\ EndOf(paths[call.n0 + 4]) # EndOf(paths[call.n0 + 3])
    /\ theta = call.th0 + 1

(***************************************************************************)
(* Claim about the pipeline, checked under SpecPipeline.                   *)
(***************************************************************************)
CentralRays == SelectSeq(paths, LAMBDA p : p.klass = "central-ray")

CentralRayChain ==
    /\ CentralRays # <<>> => StartOf(CentralRays[1]) = <<X0, Y0>>
    /\ \A k \in 2..Len(CentralRays) :
          StartOf(CentralRays[k]) = EndOf(CentralRays[k - 1])
    /\ <<x, y>> = IF CentralRays = <<>> THEN <<X0, Y0>> ELSE EndOf(Last(CentralRays))

\* C10: in draw_magnets the central-ray paths form one connected chain: the
\* first starts at (0.15, 0.15), each later one starts where the previous one
\* ended, which is the position the previous renderer returned; the plane
\* renderer changes neither the position nor the heading.
C10_ConnectedChain ==
    /\ []CentralRayChain
    /\ [][Called("draw_plane") => (x' = x /\ y' = y /\ theta' = theta)]_vars
    /\ [][(call' # call /\ call'.status = "ok" /\ call'.fn # "draw_plane")
             => (x' = call'.ret[1] /\ y' = call'.ret[2])]_vars

C10_Witness ==
    /\ pc = "write"
    /\ Len(CentralRays) = 5
    /\ theta = 1
    /\ Tipes(CentralRays[4]) = <<"M", "A">>
    /\ StartOf(CentralRays[4]) = EndOf(CentralRays[3])
    /\ StartOf(CentralRays[5]) = EndOf(CentralRays[4])
    /\ StartOf(CentralRays[5]) # StartOf(CentralRays[4])

====
